---- MODULE Spec2Model ----
(***************************************************************************)
(* A model of mums (src/mums.py): the vault container written by           *)
(* encrypt_file, read by decrypt_file, and the load / mutate / persist     *)
(* commands (show, store, remove, run) built on them.                      *)
(*                                                                         *)
(* Text is a sequence of Unicode code points, a file is a header and a     *)
(* sequence of 16-byte cipher blocks.  The cryptography is symbolic:       *)
(*   - SHA-256 is an injective constructor (no collisions);                *)
(*   - Random.new().read(16) never returns the same 16 bytes twice;        *)
(*   - a CBC cipher block is the term (derived key, IV, plaintext blocks   *)
(*     chained so far); decrypting it with the key and the predecessor it  *)
(*     was made with gives the plaintext block back; decrypting it with    *)
(*     another key, or after one of its bytes was changed, gives a         *)
(*     garbled block, chosen nondeterministically, that may coincide with  *)
(*     the genuine block on a few leading bytes (MaxAgree) but never on    *)
(*     all 16 (events of probability 2^-128 are left out, events of        *)
(*     probability 2^-8 or 2^-16 are outcomes).                            *)
(***************************************************************************)
EXTENDS Integers, Sequences, FiniteSets, TLC

VARIABLES
    disk,        \* the file at the vault path: NoFile or [hdr, ct]
    rng,         \* number of 16-byte reads made from the random source
    phase,       \* codec runs: "init", "encrypted", "decrypted"; "cli" otherwise
    plain,       \* codec runs: the plaintext given to encrypt_file
    ekey,        \* codec runs: the key given to encrypt_file
    encOutcome,  \* codec runs: how the last encrypt_file call ended
    made,        \* codec runs: the containers the encrypt_file calls wrote
    tamper,      \* what was changed in the file after it was written
    dkey,        \* codec runs: the key given to decrypt_file
    result,      \* codec runs: what decrypt_file returned or raised
    pc,          \* per invocation: its position in the command
    cmd,         \* per invocation: the command line (op, name, value, key)
    data,        \* per invocation: the dict _load returned, and as mutated since
    buf,         \* per invocation: what encrypt_file wrote to its open file
    outcome,     \* per invocation: "" while running, "ok" or the error raised
    seen,        \* per invocation: the file as the command found it (what _load read)
    ref,         \* the mapping the completed stores and removes should have built
    clean,       \* every command so far used MainKey and no byte was changed
    lastw,       \* the invocation whose persist completed last (0: none)
    ncmds        \* number of commands started

vars == <<disk, rng, phase, plain, ekey, encOutcome, made, tamper, dkey, result,
          pc, cmd, data, buf, outcome, seen, ref, clean, lastw, ncmds>>

codecVars == <<phase, plain, ekey, encOutcome, made, dkey, result>>
cliVars == <<pc, cmd, data, buf, outcome, seen, ref, clean, lastw, ncmds>>

----------------------------------------------------------------------------
(* Bounds of the model *)

MaxRun == 17        \* longest run of one character in a codec plaintext
MaxTail == 1        \* longest run of a second character after it
MaxAgree == 2       \* leading bytes a garbled block may share with the genuine one
MaxEncrypts == 2    \* encrypt_file calls in one codec run
MaxCmds == 3        \* commands in one sequential run

(* Program constants *)

BlockSize == 16     \* AES block
Space == 32         \* ' ', the padding character
LenSize == 8        \* struct.calcsize('Q')
ChunkSize == 24 * 1024

Keys == {"k1", "k2"}

Min(a, b) == IF a < b THEN a ELSE b

RECURSIVE Rep(_, _)
Rep(c, n) == IF n = 0 THEN <<>> ELSE <<c>> \o Rep(c, n - 1)

\* 'a', ' ', '\n', U+00E9
Alphabet == {97, Space, 10, 233}

\* "{}" and runs of one character followed by a shorter run of another
Plaintexts ==
    {<<123, 125>>} \cup
    {Rep(c1, n1) \o Rep(c2, n2) :
        c1 \in Alphabet, n1 \in 0..MaxRun, c2 \in Alphabet, n2 \in 0..MaxTail}

----------------------------------------------------------------------------
(* str.encode("utf-8") and bytes.decode("utf-8") *)

Utf8Char(c) ==
    IF c < 128 THEN <<c>>
    ELSE IF c < 2048 THEN <<192 + (c \div 64), 128 + (c % 64)>>
    ELSE IF c < 65536
        THEN <<224 + (c \div 4096), 128 + ((c \div 64) % 64), 128 + (c % 64)>>
    ELSE <<240 + (c \div 262144), 128 + ((c \div 4096) % 64),
           128 + ((c \div 64) % 64), 128 + (c % 64)>>

RECURSIVE Utf8Encode(_)
Utf8Encode(s) == IF s = <<>> THEN <<>> ELSE Utf8Char(Head(s)) \o Utf8Encode(Tail(s))

IsCont(b) == b >= 128 /\ b <= 191

\* [ok, text]: ok is FALSE for UnicodeDecodeError
RECURSIVE Utf8DecodeFrom(_, _, _)
Utf8DecodeFrom(b, i, acc) ==
    IF i > Len(b) THEN [ok |-> TRUE, text |-> acc]
    ELSE LET x == b[i]
             has(n) == i + n <= Len(b) /\ \A j \in 1..n : IsCont(b[i + j])
             bad == [ok |-> FALSE, text |-> <<>>]
         IN  IF x < 128 THEN Utf8DecodeFrom(b, i + 1, Append(acc, x))
             ELSE IF x >= 194 /\ x <= 223 /\ has(1)
                 THEN Utf8DecodeFrom(b, i + 2,
                          Append(acc, (x - 192) * 64 + (b[i + 1] - 128)))
             ELSE IF x >= 224 /\ x <= 239 /\ has(2)
                     /\ (x = 224 => b[i + 1] >= 160)
                     /\ (x = 237 => b[i + 1] <= 159)
                 THEN Utf8DecodeFrom(b, i + 3,
                          Append(acc, (x - 224) * 4096 + (b[i + 1] - 128) * 64
                                      + (b[i + 2] - 128)))
             ELSE IF x >= 240 /\ x <= 244 /\ has(3)
                     /\ (x = 240 => b[i + 1] >= 144)
                     /\ (x = 244 => b[i + 1] <= 143)
                 THEN Utf8DecodeFrom(b, i + 4,
                          Append(acc, (x - 240) * 262144 + (b[i + 1] - 128) * 4096
                                      + (b[i + 2] - 128) * 64 + (b[i + 3] - 128)))
             ELSE bad

Utf8Decode(b) == Utf8DecodeFrom(b, 1, <<>>)

----------------------------------------------------------------------------
(* struct.pack('<Q', n) and struct.unpack('<Q', b) *)

RECURSIVE PackFrom(_, _)
PackFrom(n, i) == IF i = 0 THEN <<>> ELSE <<n % 256>> \o PackFrom(n \div 256, i - 1)

PackQ(n) == PackFrom(n, LenSize)

RECURSIVE UnpackFrom(_, _)
UnpackFrom(b, i) == IF i > Len(b) THEN 0 ELSE b[i] + 256 * UnpackFrom(b, i + 1)

UnpackQ(b) == UnpackFrom(b, 1)

----------------------------------------------------------------------------
(* hashlib.sha256, check_please, the random source *)

Sha256Key(key) == <<"sha256", key>>

check_please_IvOnly(iv, plaintext) == [iv |-> iv, h |-> <<>>, tpos |-> 0]

\* the digest of str(iv) + sha256(plaintext).hexdigest(); tpos is 0 until one of the
\* 32 bytes of the stored digest is changed (whichever: the digest then differs)
check_please(iv, plaintext) == [iv |-> iv, h |-> plaintext, tpos |-> 0]

RandomReadFixed(n) == 1

\* Random.new().read(16) after n earlier reads
RandomRead(n) == n + 1

----------------------------------------------------------------------------
(* AES in CBC mode *)

\* the bytes of one chunk cut into blocks
RECURSIVE BlocksOf(_)
BlocksOf(b) ==
    IF Len(b) = 0 THEN <<>>
    ELSE <<SubSeq(b, 1, BlockSize)>> \o BlocksOf(SubSeq(b, BlockSize + 1, Len(b)))

\* encryptor.encrypt: the cipher blocks of plaintext blocks pbs, chained after the
\* plaintext blocks pre already encrypted under (k, iv)
RECURSIVE CbcEncrypt(_, _, _, _)
CbcEncrypt(k, iv, pre, pbs) ==
    IF pbs = <<>> THEN <<>>
    ELSE LET now == Append(pre, Head(pbs))
         IN  <<[k |-> k, iv |-> iv, pre |-> now, tpos |-> 0]>>
             \o CbcEncrypt(k, iv, now, Tail(pbs))

\* what a garbled block looks like: how many leading bytes it shares with the
\* genuine block, and the byte in the other places: 'x', which no plaintext of the
\* model holds, or 0xFF, which no UTF-8 text holds
Garbage == [agree : 0..MaxAgree, fill : {120, 255}]

Garble(pb, g) == [j \in 1..BlockSize |-> IF j <= g.agree THEN pb[j] ELSE g.fill]

Genuine(c) == [c EXCEPT !.tpos = 0]

\* decryptor.decrypt of the i-th cipher block of a file whose header holds iv
DecBlock(k, iv, ct, i, g) ==
    LET c == ct[i]
        pb == c.pre[Len(c.pre)]
        first == Len(c.pre) = 1
        chained == IF i = 1 THEN first /\ c.iv = iv
                   ELSE ~first /\ Genuine(ct[i - 1]) = [c EXCEPT !.pre = SubSeq(c.pre, 1, Len(c.pre) - 1), !.tpos = 0]
    IN  IF c.tpos # 0 \/ c.k # k \/ ~chained THEN Garble(pb, g)
        ELSE IF i > 1 /\ ct[i - 1].tpos # 0
            THEN [pb EXCEPT ![ct[i - 1].tpos] = g.fill]
        ELSE pb

RECURSIVE CbcDecrypt(_, _, _, _, _)
CbcDecrypt(k, iv, ct, i, g) ==
    IF i > Len(ct) THEN <<>>
    ELSE DecBlock(k, iv, ct, i, g) \o CbcDecrypt(k, iv, ct, i + 1, g)

----------------------------------------------------------------------------
(* The container file *)

NoFile == [hdr |-> <<>>, ct |-> <<>>, exists |-> FALSE]
EmptyFile == [hdr |-> <<>>, ct |-> <<>>, exists |-> TRUE]

chunkstring(string, length) ==
    [n \in 1..((Len(string) + length - 1) \div length) |->
        SubSeq(string, (n - 1) * length + 1, Min(n * length, Len(string)))]

PadChunk(chunk) ==
    IF Len(chunk) % BlockSize # 0
    THEN chunk \o Rep(Space, BlockSize - (Len(chunk) % BlockSize))
    ELSE chunk

\* the loop over the chunks: [outcome, ct]; a chunk whose UTF-8 bytes are not a
\* whole number of blocks makes encryptor.encrypt raise ValueError
RECURSIVE EncryptChunks(_, _, _, _, _, _)
EncryptChunks(k, iv, chunks, n, pre, ct) ==
    IF n > Len(chunks) THEN [outcome |-> "ok", ct |-> ct]
    ELSE LET bytes == Utf8Encode(PadChunk(chunks[n]))
         IN  IF Len(bytes) % BlockSize # 0
             THEN [outcome |-> "ValueError", ct |-> ct]
             ELSE EncryptChunks(k, iv, chunks, n + 1, pre \o BlocksOf(bytes),
                                ct \o CbcEncrypt(k, iv, pre, BlocksOf(bytes)))

FileSize(plaintext) == Len(plaintext)

\* encrypt_file(key, plaintext, out_filename) with the IV drawn: [outcome, file], the
\* file being what the closed file holds
EncryptFile(key, plaintext, iv) ==
    LET k == Sha256Key(key)
        check == check_please(iv, plaintext)
        r == EncryptChunks(k, iv, chunkstring(plaintext, ChunkSize), 1, <<>>, <<>>)
    IN  [outcome |-> r.outcome,
         file |-> [hdr |-> <<[size |-> PackQ(FileSize(plaintext)), iv |-> iv, check |-> check]>>,
                   ct |-> r.ct, exists |-> TRUE]]

Ok(text) == [ok |-> TRUE, text |-> text, err |-> ""]
Err(e) == [ok |-> FALSE, text |-> <<>>, err |-> e]
NoResult == Err("none")

CheckOkAlways(check, iv, plaintext) == TRUE

\* not (check != check_please(iv, plaintext))
CheckOk(check, iv, plaintext) == check = check_please(iv, plaintext)

Truncate(b, size) == SubSeq(b, 1, Min(size, Len(b)))

\* decrypt_file(key, in_filename) of an existing file
DecryptFile(key, file, g) ==
    IF file.hdr = <<>> THEN Err("struct.error")
    ELSE LET h == file.hdr[1]
             origsize == UnpackQ(h.size)
             out == Truncate(CbcDecrypt(Sha256Key(key), h.iv, file.ct, 1, g), origsize)
             dec == Utf8Decode(out)
         IN  IF ~dec.ok THEN Err("UnicodeDecodeError")
             ELSE IF ~CheckOk(h.check, h.iv, dec.text) THEN Err("Content not equal")
             ELSE Ok(dec.text)

----------------------------------------------------------------------------
(* Codec runs: encrypt_file, a change of one byte of the file, decrypt_file *)

NoTamper == [region |-> "none", blk |-> 0, pos |-> 0]

CliIdle ==
    /\ pc = <<>> /\ cmd = <<>> /\ data = <<>> /\ buf = <<>> /\ outcome = <<>>
    /\ seen = <<>> /\ ref = <<>> /\ clean = TRUE /\ lastw = 0 /\ ncmds = 0

InitCodec ==
    /\ disk = NoFile /\ rng = 0 /\ phase = "init"
    /\ plain \in Plaintexts /\ ekey \in Keys
    /\ encOutcome = "" /\ made = <<>> /\ tamper = NoTamper
    /\ dkey = "" /\ result = NoResult
    /\ CliIdle

CallEncrypt ==
    /\ phase \in {"init", "encrypted"} /\ tamper = NoTamper
    /\ Len(made) < MaxEncrypts
    /\ LET r == EncryptFile(ekey, plain, RandomRead(rng))
       IN  /\ disk' = r.file
           /\ encOutcome' = r.outcome
           /\ made' = Append(made, r.file)
    /\ rng' = rng + 1
    /\ phase' = "encrypted"
    /\ UNCHANGED <<plain, ekey, tamper, dkey, result>>
    /\ UNCHANGED cliVars

TamperCipher ==
    /\ phase = "encrypted" /\ tamper = NoTamper
    /\ \E i \in 1..Len(disk.ct), j \in 1..BlockSize :
        /\ disk' = [disk EXCEPT !.ct[i].tpos = j]
        /\ tamper' = [region |-> "ct", blk |-> i, pos |-> j]
    /\ UNCHANGED <<rng, phase, plain, ekey, encOutcome, made, dkey, result>>
    /\ UNCHANGED cliVars

TamperDigest ==
    /\ phase = "encrypted" /\ tamper = NoTamper
    /\ disk' = [disk EXCEPT !.hdr[1].check.tpos = 1]
    /\ tamper' = [region |-> "digest", blk |-> 0, pos |-> 0]
    /\ UNCHANGED <<rng, phase, plain, ekey, encOutcome, made, dkey, result>>
    /\ UNCHANGED cliVars

CallDecrypt ==
    /\ phase = "encrypted"
    /\ \E k \in Keys, g \in Garbage :
        /\ dkey' = k
        /\ result' = DecryptFile(k, disk, g)
    /\ phase' = "decrypted"
    /\ UNCHANGED <<disk, rng, plain, ekey, encOutcome, made, tamper>>
    /\ UNCHANGED cliVars

NextCodec == CallEncrypt \/ TamperCipher \/ TamperDigest \/ CallDecrypt

SpecCodec == InitCodec /\ [][NextCodec]_vars

----------------------------------------------------------------------------
(* json.dumps and json.loads of a dict of strings.  A dict is the sequence of
   its [name, value] items in insertion order. *)

HexDigit(n) == IF n < 10 THEN 48 + n ELSE 87 + n
HexVal(c) == IF c >= 48 /\ c <= 57 THEN c - 48
             ELSE IF c >= 97 /\ c <= 102 THEN c - 87
             ELSE IF c >= 65 /\ c <= 70 THEN c - 55
             ELSE -1

Hex4(n) == <<HexDigit(n \div 4096), HexDigit((n \div 256) % 16),
             HexDigit((n \div 16) % 16), HexDigit(n % 16)>>

\* the two-character escapes: '"', '\\', '\n', '\r', '\t', '\b', '\f'
ShortEscapes == {<<34, 34>>, <<92, 92>>, <<10, 110>>, <<13, 114>>, <<9, 116>>,
                 <<8, 98>>, <<12, 102>>}

\* ensure_ascii: what is not printable ASCII is written \uXXXX (a surrogate pair
\* above U+FFFF)
EscapeChar(c) ==
    IF \E e \in ShortEscapes : e[1] = c
    THEN <<92, (CHOOSE e \in ShortEscapes : e[1] = c)[2]>>
    ELSE IF c < 32 \/ (c > 127 /\ c < 65536) THEN <<92, 117>> \o Hex4(c)
    ELSE IF c >= 65536
        THEN <<92, 117>> \o Hex4(55296 + ((c - 65536) \div 1024))
             \o <<92, 117>> \o Hex4(56320 + ((c - 65536) % 1024))
    ELSE <<c>>

RECURSIVE EscapeString(_)
EscapeString(s) ==
    IF s = <<>> THEN <<>> ELSE EscapeChar(Head(s)) \o EscapeString(Tail(s))

JsonString(s) == <<34>> \o EscapeString(s) \o <<34>>

RECURSIVE JsonItems(_, _)
JsonItems(d, i) ==
    IF i > Len(d) THEN <<>>
    ELSE (IF i > 1 THEN <<44, 32>> ELSE <<>>)
         \o JsonString(d[i].name) \o <<58, 32>> \o JsonString(d[i].value)
         \o JsonItems(d, i + 1)

JsonDumps(d) == <<123>> \o JsonItems(d, 1) \o <<125>>

IsHex4(t, i) == i + 3 <= Len(t) /\ \A j \in 0..3 : HexVal(t[i + j]) >= 0
HexAt(t, i) == HexVal(t[i]) * 4096 + HexVal(t[i + 1]) * 256
               + HexVal(t[i + 2]) * 16 + HexVal(t[i + 3])

ParseFail == [ok |-> FALSE, val |-> <<>>, next |-> 0]

\* a string whose opening quote is before position i: [ok, val, next]
RECURSIVE ParseString(_, _, _)
ParseString(t, i, acc) ==
    IF i > Len(t) THEN ParseFail
    ELSE IF t[i] = 34 THEN [ok |-> TRUE, val |-> acc, next |-> i + 1]
    ELSE IF t[i] < 32 THEN ParseFail
    ELSE IF t[i] # 92 THEN ParseString(t, i + 1, Append(acc, t[i]))
    ELSE IF i + 1 > Len(t) THEN ParseFail
    ELSE IF \E e \in ShortEscapes : e[2] = t[i + 1]
        THEN ParseString(t, i + 2,
                 Append(acc, (CHOOSE e \in ShortEscapes : e[2] = t[i + 1])[1]))
    ELSE IF t[i + 1] = 47 THEN ParseString(t, i + 2, Append(acc, 47))
    ELSE IF t[i + 1] = 117 /\ IsHex4(t, i + 2)
        THEN LET hi == HexAt(t, i + 2)
                 pair == /\ hi >= 55296 /\ hi <= 56319
                         /\ i + 7 <= Len(t) /\ t[i + 6] = 92 /\ t[i + 7] = 117
                         /\ IsHex4(t, i + 8)
                         /\ HexAt(t, i + 8) >= 56320 /\ HexAt(t, i + 8) <= 57343
             IN  IF pair
                 THEN ParseString(t, i + 12,
                          Append(acc, 65536 + (hi - 55296) * 1024
                                      + (HexAt(t, i + 8) - 56320)))
                 ELSE ParseString(t, i + 6, Append(acc, hi))
    ELSE ParseFail

HasKey(d, name) == \E i \in 1..Len(d) : d[i].name = name
IndexOf(d, name) == CHOOSE i \in 1..Len(d) : d[i].name = name

DictSetDefault(d, name, value) ==
    IF HasKey(d, name) THEN d ELSE Append(d, [name |-> name, value |-> value])

\* data[name] = value
DictSet(d, name, value) ==
    IF HasKey(d, name) THEN [d EXCEPT ![IndexOf(d, name)].value = value]
    ELSE Append(d, [name |-> name, value |-> value])

Without(d, name) ==
    IF ~HasKey(d, name) THEN d
    ELSE SubSeq(d, 1, IndexOf(d, name) - 1) \o SubSeq(d, IndexOf(d, name) + 1, Len(d))

DictPopDefault(d, name) == [ok |-> TRUE, d |-> Without(d, name)]

\* data.pop(name): [ok, d]; ok is FALSE for KeyError
DictPop(d, name) == [ok |-> HasKey(d, name), d |-> Without(d, name)]

\* the items "name": "value" from position i on, up to the closing brace, which
\* must end the text; the layout is the one json.dumps writes
RECURSIVE ParseItems(_, _, _)
ParseItems(t, i, d) ==
    IF i > Len(t) \/ t[i] # 34 THEN [ok |-> FALSE, d |-> <<>>]
    ELSE LET n == ParseString(t, i + 1, <<>>)
         IN  IF ~n.ok \/ n.next + 2 > Len(t) \/ t[n.next] # 58 \/ t[n.next + 1] # 32
                \/ t[n.next + 2] # 34
             THEN [ok |-> FALSE, d |-> <<>>]
             ELSE LET v == ParseString(t, n.next + 3, <<>>)
                      d2 == DictSet(d, n.val, v.val)
                  IN  IF ~v.ok \/ v.next > Len(t) THEN [ok |-> FALSE, d |-> <<>>]
                      ELSE IF t[v.next] = 125
                          THEN [ok |-> v.next = Len(t), d |-> d2]
                      ELSE IF t[v.next] = 44 /\ v.next + 1 <= Len(t) /\ t[v.next + 1] = 32
                          THEN ParseItems(t, v.next + 2, d2)
                      ELSE [ok |-> FALSE, d |-> <<>>]

\* json.loads: [ok, d]; ok is FALSE for JSONDecodeError
JsonLoads(t) ==
    IF Len(t) < 2 \/ t[1] # 123 THEN [ok |-> FALSE, d |-> <<>>]
    ELSE IF t[2] = 125 THEN [ok |-> Len(t) = 2, d |-> <<>>]
    ELSE ParseItems(t, 2, <<>>)

----------------------------------------------------------------------------
(* The commands *)

Procs == {1, 2}
MainKey == "k1"

\* "A", "B"
Names == {<<65>>, <<66>>}
\* "1", and a quote, a newline, U+00E9 and a trailing space
Values == {<<49>>, <<34, 10, 233, Space>>}

Cmds ==
    [op : {"store"}, name : Names, value : Values, key : Keys]
    \cup [op : {"remove"}, name : Names, value : {<<>>}, key : Keys]
    \cup [op : {"show", "run"}, name : {<<>>}, value : {<<>>}, key : Keys]

NoCmd == [op |-> "", name |-> <<>>, value |-> <<>>, key |-> ""]
NoData == [ok |-> FALSE, loaded |-> <<>>, now |-> <<>>]
NoBuf == [outcome |-> "", file |-> NoFile]

\* _load(config): [ok, d, err]
Load(key, file, g) ==
    IF ~file.exists THEN [ok |-> TRUE, d |-> <<>>, err |-> ""]
    ELSE LET r == DecryptFile(key, file, g)
             j == JsonLoads(r.text)
         IN  IF ~r.ok
             THEN [ok |-> FALSE, d |-> <<>>,
                   err |-> IF r.err = "UnicodeDecodeError"
                           THEN "Failed to load from vault" ELSE r.err]
             ELSE IF ~j.ok THEN [ok |-> FALSE, d |-> <<>>, err |-> "JSONDecodeError"]
             ELSE [ok |-> TRUE, d |-> j.d, err |-> ""]

WritesAlways(op) == TRUE

\* the commands that call encrypt_file
Writes(op) == op \in {"store", "remove"}

\* what the command does to the loaded dict: [ok, d]
Mutate(c, d) ==
    IF c.op = "store" THEN [ok |-> TRUE, d |-> DictSet(d, c.name, c.value)]
    ELSE IF c.op = "remove" THEN DictPop(d, c.name)
    ELSE [ok |-> TRUE, d |-> d]

FlushUnder(b, d) == IF d.hdr = <<>> THEN b ELSE d

\* closing the file writes the buffered bytes from offset 0 over what the file
\* holds by then; bytes beyond them stay
Flush(b, d) ==
    [hdr |-> b.hdr, ct |-> b.ct \o SubSeq(d.ct, Len(b.ct) + 1, Len(d.ct)),
     exists |-> TRUE]

\* the mapping with the command applied
ApplyRef(c, m) ==
    IF c.op = "store"
    THEN [n \in DOMAIN m \cup {c.name} |-> IF n = c.name THEN c.value ELSE m[n]]
    ELSE IF c.op = "remove" THEN [n \in DOMAIN m \ {c.name} |-> m[n]]
    ELSE m

ToMap(d) == [n \in {d[i].name : i \in 1..Len(d)} |-> d[IndexOf(d, n)].value]

EmptyMap == [n \in {} |-> <<>>]

InitCli ==
    /\ disk = NoFile /\ rng = 0 /\ phase = "cli"
    /\ plain = <<>> /\ ekey = "" /\ encOutcome = "" /\ made = <<>>
    /\ tamper = NoTamper /\ dkey = "" /\ result = NoResult
    /\ pc = [i \in Procs |-> "idle"]
    /\ cmd = [i \in Procs |-> NoCmd]
    /\ data = [i \in Procs |-> NoData]
    /\ buf = [i \in Procs |-> NoBuf]
    /\ outcome = [i \in Procs |-> ""]
    /\ seen = [i \in Procs |-> NoFile]
    /\ ref = EmptyMap /\ clean = TRUE /\ lastw = 0 /\ ncmds = 0

\* the command starts: _load, then the change of the dict; show and run end here,
\* and so does a command whose _load or pop raised
Invoke(i, c) ==
    /\ phase = "cli" /\ pc[i] = "idle" /\ ncmds < MaxCmds
    /\ \E l \in {Load(c.key, disk, g) : g \in Garbage} :
        LET m == Mutate(c, l.d)
            goes == l.ok /\ m.ok /\ Writes(c.op)
        IN  /\ data' = [data EXCEPT ![i] = [ok |-> l.ok, loaded |-> l.d, now |-> m.d]]
            /\ outcome' = [outcome EXCEPT ![i] =
                              IF ~l.ok THEN l.err
                              ELSE IF ~m.ok THEN "KeyError"
                              ELSE IF goes THEN "" ELSE "ok"]
            /\ pc' = [pc EXCEPT ![i] = IF goes THEN "open" ELSE "done"]
    /\ cmd' = [cmd EXCEPT ![i] = c]
    /\ seen' = [seen EXCEPT ![i] = disk]
    /\ clean' = (clean /\ c.key = MainKey)
    /\ ncmds' = ncmds + 1
    /\ UNCHANGED <<disk, rng, tamper, buf, ref, lastw>>
    /\ UNCHANGED codecVars

\* encrypt_file up to the last write: the IV is drawn, open(..., 'wb') empties the
\* file, the header and the cipher blocks go to the file object's buffer
Open(i) ==
    /\ phase = "cli" /\ pc[i] = "open"
    /\ buf' = [buf EXCEPT ![i] =
                  EncryptFile(cmd[i].key, JsonDumps(data[i].now), RandomRead(rng))]
    /\ rng' = rng + 1
    /\ disk' = EmptyFile
    /\ pc' = [pc EXCEPT ![i] = "close"]
    /\ UNCHANGED <<tamper, cmd, data, outcome, seen, ref, clean, lastw, ncmds>>
    /\ UNCHANGED codecVars

\* the end of the with block: the buffer reaches the file
Close(i) ==
    /\ phase = "cli" /\ pc[i] = "close"
    /\ disk' = Flush(buf[i].file, disk)
    /\ outcome' = [outcome EXCEPT ![i] = buf[i].outcome]
    /\ pc' = [pc EXCEPT ![i] = "done"]
    /\ ref' = IF buf[i].outcome = "ok" THEN ApplyRef(cmd[i], ref) ELSE ref
    /\ lastw' = i
    /\ UNCHANGED <<rng, tamper, cmd, data, buf, seen, clean, ncmds>>
    /\ UNCHANGED codecVars

\* the process ends
Exit(i) ==
    /\ phase = "cli" /\ pc[i] = "done"
    /\ pc' = [pc EXCEPT ![i] = "idle"]
    /\ cmd' = [cmd EXCEPT ![i] = NoCmd]
    /\ data' = [data EXCEPT ![i] = NoData]
    /\ buf' = [buf EXCEPT ![i] = NoBuf]
    /\ outcome' = [outcome EXCEPT ![i] = ""]
    /\ seen' = [seen EXCEPT ![i] = NoFile]
    /\ UNCHANGED <<disk, rng, tamper, ref, clean, lastw, ncmds>>
    /\ UNCHANGED codecVars

\* between two commands, one byte of the ciphertext or of the digest is changed
Corrupt ==
    /\ phase = "cli" /\ tamper = NoTamper /\ disk.hdr # <<>>
    /\ \A i \in Procs : pc[i] = "idle"
    /\ \/ \E i \in 1..Len(disk.ct), j \in 1..BlockSize :
            /\ disk' = [disk EXCEPT !.ct[i].tpos = j]
            /\ tamper' = [region |-> "ct", blk |-> i, pos |-> j]
       \/ /\ disk' = [disk EXCEPT !.hdr[1].check.tpos = 1]
          /\ tamper' = [region |-> "digest", blk |-> 0, pos |-> 0]
    /\ clean' = FALSE
    /\ UNCHANGED <<rng, pc, cmd, data, buf, outcome, seen, ref, lastw, ncmds>>
    /\ UNCHANGED codecVars

\* one invocation at a time, with any key, the file open to a change in between
NextSeq ==
    \/ \E c \in Cmds : Invoke(1, c)
    \/ Open(1)
    \/ Close(1)
    \/ Exit(1)
    \/ Corrupt

SpecSeq == InitCli /\ [][NextSeq]_vars

\* two invocations at once, with the right key
NextConc ==
    \/ \E i \in Procs, c \in Cmds : c.key = MainKey /\ Invoke(i, c)
    \/ \E i \in Procs : Open(i)
    \/ \E i \in Procs : Close(i)
    \/ \E i \in Procs : Exit(i)

SpecConc == InitCli /\ [][NextConc]_vars

----------------------------------------------------------------------------
(* Claims about encrypt_file and decrypt_file, checked under SpecCodec *)

Utf8Len(s) == Len(Utf8Encode(s))
RoundUp(n) == ((n + BlockSize - 1) \div BlockSize) * BlockSize
Decrypted == phase = "decrypted"
SameKey == dkey = ekey

\* C1: decrypt_file(k, file written by encrypt_file(k, p)) returns exactly p, for
\* every UTF-8 string p, trailing spaces and non-ASCII characters included.
C1_RoundTrip ==
    (Decrypted /\ tamper = NoTamper /\ SameKey)
        => (encOutcome = "ok" /\ result = Ok(plain))

\* C9: the first 8 bytes of the container hold the plaintext's length in UTF-8
\* bytes, little-endian, and the ciphertext after the header is the smallest
\* multiple of 16 bytes that is at least that length.
C9_HeaderLength ==
    (phase = "encrypted" /\ tamper = NoTamper /\ encOutcome = "ok")
        => /\ UnpackQ(disk.hdr[1].size) = Utf8Len(plain)
           /\ Len(disk.ct) * BlockSize = RoundUp(Utf8Len(plain))

\* C6 as stated: after a change of any single byte of the ciphertext or of the
\* digest field, decrypt_file with the original key fails.
C6_TamperAlwaysFails ==
    (Decrypted /\ tamper # NoTamper /\ SameKey) => ~result.ok

\* C6 as amended: after such a change decrypt_file with the original key never
\* returns a plaintext other than the encrypted one; it fails when the byte is in
\* the digest, and when it is in a cipher block all of whose 16 decrypted bytes lie
\* before the stored length (any block but a padded last one); a change in the
\* padded last block is missed when the garbled block still agrees with the
\* plaintext on the bytes before the stored length.
C6_TamperNeverWrongData ==
    (Decrypted /\ tamper # NoTamper /\ SameKey) =>
        /\ result.ok => result.text = plain
        /\ tamper.region = "digest" => ~result.ok
        /\ (tamper.region = "ct"
              /\ tamper.blk * BlockSize <= UnpackQ(disk.hdr[1].size)) => ~result.ok

C6_Witness ==
    /\ Decrypted /\ SameKey /\ tamper.region = "ct" /\ tamper.blk = 2
    /\ result.err = "Content not equal"

\* C7 as stated: decrypt_file with a key other than the one given to encrypt_file
\* always fails.
C7_WrongKeyAlwaysFails ==
    (Decrypted /\ tamper = NoTamper /\ ~SameKey /\ encOutcome = "ok") => ~result.ok

\* C7 as amended: decrypt_file with another key either fails, with a UTF-8 decode
\* error or a digest mismatch, or returns exactly the plaintext that was encrypted
\* (as it does for the empty plaintext, which has no ciphertext, the digest not
\* depending on the key); it never returns another plaintext.
C7_WrongKeyNeverWrongData ==
    (Decrypted /\ tamper = NoTamper /\ ~SameKey /\ encOutcome = "ok") =>
        IF result.ok THEN result.text = plain
        ELSE result.err \in {"UnicodeDecodeError", "Content not equal"}

C7_Witness ==
    /\ Decrypted /\ tamper = NoTamper /\ ~SameKey /\ encOutcome = "ok"
    /\ result.err = "UnicodeDecodeError" /\ Len(plain) > BlockSize

Pairs(n) == {ij \in (1..n) \X (1..n) : ij[1] < ij[2]}

\* C8 as stated: no two containers written by encrypt_file carry the same IV, and
\* encrypting the same plaintext with the same key twice gives different IVs and
\* different ciphertexts.
C8_FreshIvAndCiphertext ==
    encOutcome = "ok" =>
        \A ij \in Pairs(Len(made)) :
            /\ made[ij[1]].hdr[1].iv # made[ij[2]].hdr[1].iv
            /\ made[ij[1]].ct # made[ij[2]].ct

\* C8 as amended: no two containers written by encrypt_file carry the same IV, and
\* encrypting the same non-empty plaintext with the same key twice gives different
\* ciphertexts (the empty plaintext has no ciphertext at all).
C8_FreshIv ==
    \A ij \in Pairs(Len(made)) :
        /\ made[ij[1]].hdr[1].iv # made[ij[2]].hdr[1].iv
        /\ (encOutcome = "ok" /\ plain # <<>>) => made[ij[1]].ct # made[ij[2]].ct

C8_Witness ==
    /\ Len(made) = 2 /\ encOutcome = "ok" /\ Len(plain) > BlockSize
    /\ made[1].hdr[1].check.h = made[2].hdr[1].check.h

----------------------------------------------------------------------------
(* Claims about the commands, checked under SpecSeq and SpecConc *)

Quiet == \A i \in Procs : pc[i] \in {"idle", "done"}
Complete(f) ==
    /\ f.hdr # <<>>
    /\ Len(f.ct) * BlockSize = RoundUp(UnpackQ(f.hdr[1].size))

\* C2: starting from no file, after any sequence of stores and removes run one
\* after another with the same key, load returns exactly the mapping obtained by
\* applying the same inserts, overwrites and deletions to an empty map.
C2_StoreRemoveSemantics ==
    (clean /\ Quiet) =>
        \A g \in Garbage :
            \E l \in {Load(MainKey, disk, g)} : l.ok /\ ToMap(l.d) = ref

C2_Witness ==
    /\ clean /\ pc[1] = "done" /\ ncmds = 3 /\ cmd[1].op = "remove"
    /\ outcome[1] = "ok" /\ DOMAIN ref = {<<65>>}
    /\ ref[<<65>>] = <<34, 10, 233, Space>>

\* C3: remove(name) on a vault whose mapping does not contain name, the vault file
\* missing included, fails with a key-not-found error, never reports success and
\* writes nothing.
C3_RemoveAbsentFails ==
    \A i \in Procs :
        (pc[i] # "idle" /\ cmd[i].op = "remove" /\ ~HasKey(data[i].loaded, cmd[i].name))
            => /\ pc[i] = "done"
               /\ outcome[i] # "ok"
               /\ data[i].ok => outcome[i] = "KeyError"
               /\ disk = seen[i]

C3_Witness ==
    \E i \in Procs :
        /\ pc[i] = "done" /\ cmd[i].op = "remove" /\ outcome[i] = "KeyError"
        /\ seen[i].exists /\ Len(data[i].loaded) > 0

\* C4: at every point during a store or remove, a concurrent load of the same vault
\* path finds either the complete previous container or the complete new one, never
\* an empty, header-only or partly written file.
C4_AtomicRewrite ==
    \A i \in Procs : (pc[i] # "idle" /\ seen[i].exists) => Complete(seen[i])

\* the command of invocation i changes the mapping it loaded
Changes(i) == ApplyRef(cmd[i], ToMap(data[i].loaded)) # ToMap(data[i].loaded)

\* i and j changed different names, both loaded before either persisted, and j
\* persisted last
Raced(i, j) ==
    /\ i # j /\ pc[i] = "done" /\ pc[j] = "done"
    /\ Changes(i) /\ Changes(j)
    /\ Writes(cmd[i].op) /\ Writes(cmd[j].op) /\ cmd[i].name # cmd[j].name
    /\ data[i].ok /\ data[j].ok /\ seen[i] = seen[j]
    /\ Mutate(cmd[i], data[i].loaded).ok /\ Mutate(cmd[j], data[j].loaded).ok
    /\ lastw = j

\* C5: when two invocations that change different names of the same vault both load
\* before either persists, both finish without error and the vault then holds what
\* was loaded with the later persist's change alone: the earlier one's is lost.
C5_LostUpdate ==
    \A i, j \in Procs :
        Raced(i, j) =>
            /\ outcome[i] = "ok" /\ outcome[j] = "ok"
            /\ \A g \in Garbage :
                \E l \in {Load(MainKey, disk, g)} :
                    /\ l.ok
                    /\ ToMap(l.d) = ApplyRef(cmd[j], ToMap(data[j].loaded))
                    /\ ToMap(l.d) # ApplyRef(cmd[i], ToMap(l.d))

C5_Witness ==
    \E i, j \in Procs :
        /\ Raced(i, j) /\ cmd[i].op = "store" /\ cmd[j].op = "remove"
        /\ seen[i].exists

\* C10: whenever a store or remove ends in an error the file at the vault path is
\* what it was before the invocation (and none is created if none existed); show
\* and run never write the file.
C10_FailedCommandLeavesVault ==
    \A i \in Procs :
        (pc[i] = "done" /\ (outcome[i] # "ok" \/ cmd[i].op \in {"show", "run"}))
            => disk = seen[i]

C10_Witness ==
    \E i \in Procs :
        /\ pc[i] = "done" /\ cmd[i].op = "store" /\ seen[i].exists
        /\ outcome[i] = "Content not equal" /\ disk = seen[i]

====
